---- MODULE Spec2Model ----
(***************************************************************************)
(* The driver's location-sharing session of the bus tracker: the React     *)
(* hook useLocationSharing (src/src/hooks/useLocationSharing.js) over the  *)
(* location service (src/src/lib/locationService.js), the platform's       *)
(* geolocation watch registry and the presence document of the driver in   *)
(* the driverLocations collection.                                         *)
(*                                                                         *)
(* Every await of the code is a suspension point: an async call in flight  *)
(* is a record of `tasks` whose pc names the await it is parked on.  A     *)
(* continuation that follows an already settled promise runs in the same   *)
(* step as the code before it (microtasks run before the next event).      *)
(*                                                                         *)
(* The store is outside the repository.  A write in flight is settled by   *)
(* the store at a moment of its own: the writes in flight settle in any    *)
(* order, each applied or rejected, and the promise of a write resolves in *)
(* the step that settles it.  The code does nothing to order two writes    *)
(* it has in flight: it never awaits one before it issues the next.        *)
(*                                                                         *)
(* Positions are numbered: 0 is the position of a one-shot fetch, and the  *)
(* n-th position a watch delivers is n.                                    *)
(*                                                                         *)
(* The map view (AppContent and BusMap of src/src/App.jsx) over the fleet  *)
(* listener (src/src/lib/busService.js) and the presence listener shares   *)
(* no state with the hook: Spec runs the hook with the map idle, MapSpec   *)
(* the two listeners and the clock with the hook idle, SelectSpec the      *)
(* listeners and the user's clicks.                                        *)
(***************************************************************************)
EXTENDS Integers, Sequences, FiniteSets, Bags, TLC

VARIABLES
    isSharing,          \* useState(false), hook line 17
    loading,            \* useState(false), hook line 18
    error,              \* useState(''), hook line 19
    locationPermission, \* useState('unknown'), hook line 20
    watchIdRef,         \* useRef(null), hook line 24; 0 models null
    mounted,            \* the component owning the hook is mounted
    permQuery,          \* navigator.permissions.query of the mount effect
    hasGeo,             \* 'geolocation' in navigator
    registered,         \* watch ids registered with navigator.geolocation
    nextWatchId,        \* the id the platform hands out next
    store,              \* the document driverLocations/<uid>
    tasks,              \* async calls in flight, a bag: equal calls may overlap
    nCalls,             \* user calls made so far
    nPos,               \* positions the watch has delivered so far
    ret,                \* what the call that resolved in this step returned
    cancelled           \* the watch registrations this step cancelled

\* The map view: AppContent and BusMap of src/src/App.jsx.
VARIABLES
    selectedBus,        \* useState(null), App.jsx line 24
    selectedDriver,     \* useState(null), App.jsx line 25
    buses,              \* what subscribeToBusLocations last gave its callback
    driverLocations,    \* useState([]), App.jsx line 566
    fleetListening,     \* the fleet listener has not been ended by an error
    now,                \* new Date(), in milliseconds
    selectionCurrent,   \* the selected object is one of the list held now
    focus               \* the map.setView calls of the last render's effects

mapVars == <<selectedBus, selectedDriver, buses, driverLocations, fleetListening, now,
             selectionCurrent, focus>>

vars == <<isSharing, loading, error, locationPermission, watchIdRef, mounted,
          permQuery, hasGeo, registered, nextWatchId, store, tasks,
          nCalls, nPos, ret, cancelled, mapVars>>

\* ------------------------------------------------------------------ bounds
MaxCalls == 2
MaxPos == 2

\* ---------------------------------------------------------------- messages
CapabilityMsg == "Only verified drivers can share location"
AuthMsg == "User not authenticated"
NoGeoMsg == "Geolocation is not supported by this browser"
StopFailedMsg == "Failed to stop location sharing"
UpdateFailedMsg == "Failed to update location"
StoreErrMsg == "store: write rejected"
TrackingPrefix == "Location tracking error: "

Undefined == "undefined"

\* The codes of a GeolocationPositionError.
ErrorCodes == {"PERMISSION_DENIED", "POSITION_UNAVAILABLE", "TIMEOUT"}

\* The platform's error object: its code, and the three code constants.
GeolocationPositionError(code) ==
    [code |-> code,
     PERMISSION_DENIED |-> "PERMISSION_DENIED",
     POSITION_UNAVAILABLE |-> "POSITION_UNAVAILABLE",
     TIMEOUT |-> "TIMEOUT"]

\* A JavaScript property read: undefined when the object has no such property.
Prop(obj, name) == IF name \in DOMAIN obj THEN obj[name] ELSE Undefined

\* getCurrentPosition's switch falling to its default for every code.
ErrorMessageUnknown(e) == "Unknown location error"

\* The switch of getCurrentPosition and of watchPosition's error wrapper.
ErrorMessage(e) ==
    IF Prop(e, "code") = Prop(e, "PERMISSION_DENIED") THEN "Location access denied by user"
    ELSE IF Prop(e, "code") = Prop(e, "POSITION_UNAVAILABLE") THEN "Location information unavailable"
    ELSE IF Prop(e, "code") = Prop(e, "TIMEOUT") THEN "Location request timed out"
    ELSE "Unknown location error"

\* new Error(errorMessage): the object the service hands to the hook.
WrappedError(e) == [message |-> ErrorMessage(e)]

\* The hook's test of a watch error, error.code === error.PERMISSION_DENIED.
IsCritical(e) == Prop(e, "code") = Prop(e, "PERMISSION_DENIED")

\* ------------------------------------------------------------------- store
NoDoc == [exists |-> FALSE, profile |-> FALSE, pos |-> 0, isActive |-> FALSE]

\* setDoc(locationRef, locationData): the full-field create.
CreateDoc(pos) == [exists |-> TRUE, profile |-> TRUE, pos |-> pos, isActive |-> TRUE]

\* setDoc(locationRef, updateData) with the merge option forgotten: the
\* document is replaced by the update's fields.
OverwriteDoc(doc, pos) ==
    [exists |-> TRUE, profile |-> FALSE, pos |-> pos, isActive |-> TRUE]

\* The merge-update without its isActive field: the record keeps the value it
\* had, and a record the merge creates has none.
MergeDocKeepActive(doc, pos) ==
    [exists |-> TRUE, profile |-> doc.exists /\ doc.profile, pos |-> pos,
     isActive |-> doc.exists /\ doc.isActive]

\* setDoc(locationRef, updateData, {merge: true}).  `profile` stands for the fields
\* only the create writes: userId, email, displayName, busNumber, route and
\* createdAt.
MergeDoc(doc, pos) ==
    [exists |-> TRUE, profile |-> doc.exists /\ doc.profile, pos |-> pos, isActive |-> TRUE]

\* ------------------------------------------------------------------- tasks
\* A call in flight: which function, the await it is parked on, the position
\* it carries, and who called it (the user, or the watch's error callback).
Task(kind, pc, pos, cause) == [kind |-> kind, pc |-> pc, pos |-> pos, cause |-> cause]

Spawn(bag, t) == bag (+) SetToBag({t})
Finish(bag, t) == bag (-) SetToBag({t})
Move(bag, t, pc) == Spawn(Finish(bag, t), [t EXCEPT !.pc = pc])
InFlight == BagToSet(tasks)

\* The value a call resolves with, {success: ...}, with the call it is of.
Ret(kind, success, cause) == [kind |-> kind, success |-> success, cause |-> cause]

\* No call resolved in this step.
NoRet == Ret("none", FALSE, "none")

\* A state setter that sets nothing.
SetIgnored(cur, new) == cur

\* A state setter of an unmounted component does nothing.
Set(cur, new) == IF mounted THEN new ELSE cur

\* null, where the code compares or tests an object.
Null == [null |-> TRUE]

\* The readings of the clock, in milliseconds: around 300 s after second 100.
Clock == {399000, 399999, 400000, 401000}

\* The map view as mounted: nothing selected, no snapshot delivered yet.
MapIdle ==
    /\ selectedBus = Null
    /\ selectedDriver = Null
    /\ buses = <<>>
    /\ driverLocations = <<>>
    /\ fleetListening = TRUE
    /\ selectionCurrent = FALSE
    /\ focus = <<>>

Init ==
    /\ MapIdle
    /\ now = CHOOSE t \in Clock : \A u \in Clock : t <= u
    /\ isSharing = FALSE
    /\ loading = FALSE
    /\ error = ""
    /\ hasGeo \in BOOLEAN
    /\ locationPermission = IF hasGeo THEN "unknown" ELSE "unavailable"
    /\ permQuery = IF hasGeo THEN "pending" ELSE "none"
    /\ watchIdRef = 0
    /\ mounted = TRUE
    /\ registered = {}
    /\ nextWatchId = 1
    /\ store = NoDoc
    /\ tasks = EmptyBag
    /\ nCalls = 0
    /\ nPos = 0
    /\ ret = NoRet
    /\ cancelled = {}

\* -------------------------------------------------------- the hook's tests
\* requestPermission storing the failure's message where the state goes.
PermissionOnFailureMessage(msg) == msg

\* requestPermission's state for a failed request, whatever the failure:
\* setLocationPermission('denied').
PermissionOnFailure(msg) == "denied"

\* checkLocationPermission's catch taking a query that threw for a refusal.
QueryResultDenied(s) == IF s = "throws" THEN "denied" ELSE s

\* checkLocationPermission's state for a settled query: result.state, or
\* 'unknown' from the catch when navigator.permissions is missing or throws.
QueryResult(s) == IF s = "throws" THEN "unknown" ELSE s

\* The gate with its || written &&: one of the two flags is enough.
CapabilityOkLoose(isDriver, isVerified) == isDriver \/ isVerified

\* startSharing's capability gate, if (!isDriver || !isVerified).
CapabilityOk(isDriver, isVerified) == ~(~isDriver \/ ~isVerified)

\* startSharing's permission test without its second clause.
NeedsPermissionRequestUnlessGranted(p) == p # "granted"

\* startSharing: locationPermission !== 'granted' && locationPermission !== 'unknown'.
NeedsPermissionRequest(p) == p # "granted" /\ p # "unknown"

\* startWatchingPosition without its clearWatch: the old watch is kept.
StartWatchKeep(reg, ref) == reg

\* if (watchIdRef.current) navigator.geolocation.clearWatch(watchIdRef.current),
\* as startWatchingPosition does it before it opens the new watch.
StartWatchClear(reg, ref) == IF ref # 0 THEN reg \ {ref} ELSE reg

\* stopSharing with its clearWatch forgotten.
StopKeep(reg, ref) == reg

\* The same two lines in stopSharing.
StopClear(reg, ref) == IF ref # 0 THEN reg \ {ref} ELSE reg

\* The same two lines in the unmount cleanup.
UnmountClear(reg, ref) == IF ref # 0 THEN reg \ {ref} ELSE reg

\* The watch callback ignoring the outcome of its write.
UpdateResultSilent(success, cur) == cur

\* The watch callback after its write resolved: if (!updateResult.success)
\* setError('Failed to update location').
UpdateResultError(success, cur) == IF ~success THEN UpdateFailedMsg ELSE cur

\* ------------------------------------------------------------ user's calls
\* startSharing up to its first pending await.
StartBody(isDriver, isVerified, authed) ==
    LET failNow(msg) ==
            /\ error' = msg
            /\ ret' = Ret("start", FALSE, "user")
            /\ UNCHANGED <<loading, locationPermission, tasks>>
    IN
    /\ nCalls' = nCalls + 1
    /\ IF ~CapabilityOk(isDriver, isVerified) THEN failNow(CapabilityMsg)
       ELSE IF ~authed THEN failNow(AuthMsg)
       ELSE IF NeedsPermissionRequest(locationPermission) THEN
            IF ~hasGeo THEN
                \* requestLocationPermission throws and returns the failure;
                \* requestPermission reports it and startSharing returns it.
                /\ error' = NoGeoMsg
                /\ locationPermission' = PermissionOnFailure(NoGeoMsg)
                /\ loading' = FALSE
                /\ ret' = Ret("start", FALSE, "user")
                /\ UNCHANGED tasks
            ELSE
                /\ error' = ""
                /\ loading' = TRUE
                /\ tasks' = Spawn(tasks, Task("start", "perm_fetch", 0, "user"))
                /\ ret' = NoRet
                /\ UNCHANGED locationPermission
       ELSE IF ~hasGeo THEN
            \* startLocationSharing throws and returns the failure.
            /\ error' = NoGeoMsg
            /\ loading' = FALSE
            /\ ret' = Ret("start", FALSE, "user")
            /\ UNCHANGED <<locationPermission, tasks>>
       ELSE
            /\ error' = ""
            /\ loading' = TRUE
            /\ tasks' = Spawn(tasks, Task("start", "acq_fetch", 0, "user"))
            /\ ret' = NoRet
                /\ UNCHANGED locationPermission
    /\ UNCHANGED <<isSharing, watchIdRef, mounted, permQuery, hasGeo, registered,
                   nextWatchId, store, nPos>>
    /\ cancelled' = {}

\* stopSharing up to its await of the delete.  `authed` is whether `user` is
\* set: user.uid throws otherwise, inside the try.
StopBody(authed, cause) ==
    /\ registered' = StopClear(registered, watchIdRef)
    /\ cancelled' = registered \ registered'
    /\ watchIdRef' = 0
    /\ IF ~authed THEN
            /\ error' = Set(error, StopFailedMsg)
            /\ loading' = Set(loading, FALSE)
            /\ ret' = Ret("stop", FALSE, cause)
            /\ UNCHANGED tasks
       ELSE
            /\ error' = Set(error, "")
            /\ loading' = Set(loading, TRUE)
            /\ tasks' = Spawn(tasks, Task("stop", "delete_pending", 0, cause))
            /\ ret' = NoRet
    /\ UNCHANGED <<isSharing, locationPermission, mounted, permQuery, hasGeo,
                   nextWatchId, store, nPos>>

StartSharing(isDriver, isVerified, authed) ==
    /\ mounted
    /\ nCalls < MaxCalls
    /\ StartBody(isDriver, isVerified, authed)

StopSharing(authed) ==
    /\ mounted
    /\ nCalls < MaxCalls
    /\ nCalls' = nCalls + 1
    /\ StopBody(authed, "user")

\* toggleSharing's test with the branches swapped.
ToggleStopsIfIdle(sharing) == ~sharing

\* toggleSharing's test: if (isSharing).
ToggleStops(sharing) == sharing

\* toggleSharing: setError(''), then stopSharing if isSharing, else startSharing.
ToggleSharing(isDriver, isVerified, authed) ==
    /\ mounted
    /\ nCalls < MaxCalls
    /\ IF ToggleStops(isSharing)
       THEN /\ nCalls' = nCalls + 1
            /\ StopBody(authed, "user")
       ELSE StartBody(isDriver, isVerified, authed)

\* requestPermission called on its own.
RequestPermission ==
    /\ mounted
    /\ nCalls < MaxCalls
    /\ nCalls' = nCalls + 1
    /\ IF ~hasGeo THEN
            /\ error' = NoGeoMsg
            /\ locationPermission' = PermissionOnFailure(NoGeoMsg)
            /\ loading' = FALSE
            /\ ret' = Ret("request", FALSE, "user")
            /\ UNCHANGED tasks
       ELSE
            /\ error' = ""
            /\ loading' = TRUE
            /\ tasks' = Spawn(tasks, Task("request", "perm_fetch", 0, "user"))
            /\ ret' = NoRet
                /\ UNCHANGED locationPermission
    /\ UNCHANGED <<isSharing, watchIdRef, mounted, permQuery, hasGeo, registered,
                   nextWatchId, store, nPos>>
    /\ cancelled' = {}

\* ------------------------------------------------------- platform answers
FetchOutcomes == {"ok"} \cup ErrorCodes

\* stopSharing taking every result of stopLocationSharing for a success.
StopSucceededAlways(ok, doc) == TRUE

\* stopLocationSharing failing when there is no document to delete.
StopSucceededIfPresent(ok, doc) == ok /\ doc.exists

\* stopLocationSharing's result: deleteDoc resolves whether or not the document
\* exists, and only a rejected delete is a failure.
StopSucceeded(ok, doc) == ok

\* startSharing taking every result of startLocationSharing for a success.
StartSucceededAlways(success) == TRUE

\* startSharing's test of startLocationSharing's result: if (result.success).
StartSucceeded(success) == success

\* startSharing dropping the error of a failed startLocationSharing.
StartFailureSilent(msg) == ""

\* startSharing reporting a failed startLocationSharing: setError(result.error).
StartFailureError(msg) == msg

\* A one-shot getCurrentPosition settles: the position, or the rejection
\* with the message of its error code.
PositionFetched(t, outcome) ==
    LET msg == ErrorMessage(GeolocationPositionError(outcome)) IN
    /\ t \in InFlight
    /\ t.pc \in {"perm_fetch", "acq_fetch"}
    /\ IF t.pc = "perm_fetch" THEN
            \* requestLocationPermission inside requestPermission
            IF outcome = "ok" THEN
                /\ locationPermission' = Set(locationPermission, "granted")
                /\ loading' = Set(loading, FALSE)
                /\ UNCHANGED error
                /\ IF t.kind = "request"
                   THEN /\ tasks' = Finish(tasks, t)
                        /\ ret' = Ret("request", TRUE, t.cause)
                   ELSE \* startSharing goes on to startLocationSharing
                        /\ tasks' = Move(tasks, t, "acq_fetch")
                        /\ ret' = NoRet
            ELSE
                /\ error' = Set(error, msg)
                /\ locationPermission' = Set(locationPermission, PermissionOnFailure(msg))
                /\ loading' = Set(loading, FALSE)
                /\ tasks' = Finish(tasks, t)
                /\ ret' = Ret(t.kind, FALSE, t.cause)
       ELSE \* startLocationSharing's getCurrentPosition
            IF outcome = "ok" THEN
                /\ tasks' = Move(tasks, t, "create_pending")
                /\ ret' = NoRet
                /\ UNCHANGED <<error, locationPermission, loading>>
            ELSE
                /\ error' = Set(error, StartFailureError(msg))
                /\ loading' = Set(loading, FALSE)
                /\ tasks' = Finish(tasks, t)
                /\ ret' = Ret("start", FALSE, t.cause)
                /\ UNCHANGED locationPermission
    /\ UNCHANGED <<isSharing, watchIdRef, mounted, permQuery, hasGeo, registered,
                   nextWatchId, store, nCalls, nPos>>
    /\ cancelled' = {}

\* The store settles one write in flight, whichever: it applies it, or
\* rejects it and leaves the document as it is; the call parked on the
\* write goes on with the outcome.
StoreWrite(t, ok) ==
    /\ t \in InFlight
    /\ t.pc \in {"create_pending", "update_pending", "delete_pending"}
    /\ tasks' = Finish(tasks, t)
    /\ store' = IF ~ok THEN store
                ELSE IF t.pc = "create_pending" THEN CreateDoc(t.pos)
                ELSE IF t.pc = "update_pending" THEN MergeDoc(store, t.pos)
                ELSE NoDoc
    /\ IF t.pc = "create_pending" /\ StartSucceeded(ok) THEN
            \* setIsSharing(true); startWatchingPosition(); return success
            /\ isSharing' = Set(isSharing, TRUE)
            /\ registered' = StartWatchClear(registered, watchIdRef) \cup {nextWatchId}
            /\ cancelled' = registered \ registered'
            /\ watchIdRef' = nextWatchId
            /\ nextWatchId' = nextWatchId + 1
            /\ loading' = Set(loading, FALSE)
            /\ ret' = Ret("start", TRUE, t.cause)
            /\ UNCHANGED error
       ELSE IF t.pc = "create_pending" THEN
            /\ error' = Set(error, StartFailureError(StoreErrMsg))
            /\ loading' = Set(loading, FALSE)
            /\ ret' = Ret("start", FALSE, t.cause)
            /\ UNCHANGED <<isSharing, registered, watchIdRef, nextWatchId>>
            /\ cancelled' = {}
       ELSE IF t.pc = "delete_pending" /\ StopSucceeded(ok, store) THEN
            /\ isSharing' = Set(isSharing, FALSE)
            /\ loading' = Set(loading, FALSE)
            /\ ret' = Ret("stop", TRUE, t.cause)
            /\ UNCHANGED <<error, registered, watchIdRef, nextWatchId>>
            /\ cancelled' = {}
       ELSE IF t.pc = "delete_pending" THEN
            /\ error' = Set(error, StoreErrMsg)
            /\ loading' = Set(loading, FALSE)
            /\ ret' = Ret("stop", FALSE, t.cause)
            /\ UNCHANGED <<isSharing, registered, watchIdRef, nextWatchId>>
            /\ cancelled' = {}
       ELSE \* the watch callback after updateDriverLocation
            /\ error' = Set(error, UpdateResultError(ok, error))
            /\ ret' = NoRet
            /\ UNCHANGED <<isSharing, loading, registered, watchIdRef, nextWatchId>>
            /\ cancelled' = {}
    /\ UNCHANGED <<locationPermission, mounted, permQuery, hasGeo, nCalls, nPos>>

\* An open watch delivers the next position: the callback issues the
\* merge-update at once and awaits it.
WatchPosition ==
    /\ registered # {}
    /\ nPos < MaxPos
    /\ nPos' = nPos + 1
    /\ tasks' = Spawn(tasks, Task("update", "update_pending", nPos + 1, "watch"))
    /\ UNCHANGED <<isSharing, loading, error, locationPermission, watchIdRef, mounted,
                   permQuery, hasGeo, registered, nextWatchId, store, nCalls>>
    /\ cancelled' = {}
    /\ ret' = NoRet

\* An open watch delivers an error: the service wraps it, the hook reports
\* it and stops sharing when it finds it critical.
WatchError(code) ==
    LET e == WrappedError(GeolocationPositionError(code)) IN
    /\ registered # {}
    /\ UNCHANGED nCalls
    /\ IF IsCritical(e)
       THEN StopBody(TRUE, code)
       ELSE /\ error' = Set(error, TrackingPrefix \o e.message)
            /\ UNCHANGED <<isSharing, loading, locationPermission, watchIdRef, mounted,
                           permQuery, hasGeo, registered, nextWatchId, store, tasks,
                           nPos>>
            /\ cancelled' = {}
            /\ ret' = NoRet

\* The owning component unmounts: the cleanup of the second effect.
Unmount ==
    /\ mounted
    /\ mounted' = FALSE
    /\ registered' = UnmountClear(registered, watchIdRef)
    /\ cancelled' = registered \ registered'
    /\ UNCHANGED <<isSharing, loading, error, locationPermission, watchIdRef,
                   permQuery, hasGeo, nextWatchId, store, tasks, nCalls,
                   nPos>>
    /\ ret' = NoRet

\* What navigator.permissions reports.
PlatformPermissionStates == {"granted", "denied", "prompt"}

\* checkLocationPermission's query settles: the platform's state, and the
\* change listener; or it threw (no permissions facility) and 'unknown'.
\* The query is issued by the mount effect and is taken to settle before the
\* user's first call; PermissionChanged covers every later change.
PermissionQueryResolved(s) ==
    /\ permQuery = "pending"
    /\ nCalls = 0
    /\ permQuery' = IF s = "throws" THEN "none" ELSE "listening"
    /\ locationPermission' = Set(locationPermission, QueryResult(s))
    /\ UNCHANGED <<isSharing, loading, error, watchIdRef, mounted, hasGeo, registered,
                   nextWatchId, store, tasks, nCalls, nPos>>
    /\ cancelled' = {}
    /\ ret' = NoRet

\* The 'change' listener on the permission status.
PermissionChanged(s) ==
    /\ permQuery = "listening"
    /\ mounted
    /\ s # locationPermission
    /\ locationPermission' = s
    /\ UNCHANGED <<isSharing, loading, error, watchIdRef, mounted, permQuery, hasGeo,
                   registered, nextWatchId, store, tasks, nCalls, nPos>>
    /\ cancelled' = {}
    /\ ret' = NoRet

Next ==
    \/ UNCHANGED mapVars /\ \E d \in BOOLEAN, v \in BOOLEAN, a \in BOOLEAN : StartSharing(d, v, a)
    \/ UNCHANGED mapVars /\ \E a \in BOOLEAN : StopSharing(a)
    \/ UNCHANGED mapVars /\ \E d \in BOOLEAN, v \in BOOLEAN, a \in BOOLEAN : ToggleSharing(d, v, a)
    \/ UNCHANGED mapVars /\ RequestPermission
    \/ UNCHANGED mapVars /\ \E t \in InFlight, o \in FetchOutcomes : PositionFetched(t, o)
    \/ UNCHANGED mapVars /\ \E t \in InFlight, ok \in BOOLEAN : StoreWrite(t, ok)
    \/ UNCHANGED mapVars /\ WatchPosition
    \/ UNCHANGED mapVars /\ \E c \in ErrorCodes : WatchError(c)
    \/ UNCHANGED mapVars /\ Unmount
    \/ UNCHANGED mapVars /\ \E s \in PlatformPermissionStates \cup {"throws"} : PermissionQueryResolved(s)
    \/ UNCHANGED mapVars /\ \E s \in {"granted", "denied"} : PermissionChanged(s)

Spec == Init /\ [][Next]_vars

\* The platform answers every position request and the store every write:
\* getCurrentPosition calls back or times out, and setDoc and deleteDoc settle.
PlatformAnswers == UNCHANGED mapVars /\ \E t \in InFlight, o \in FetchOutcomes : PositionFetched(t, o)

StoreAnswers == UNCHANGED mapVars /\ \E t \in InFlight, ok \in BOOLEAN : StoreWrite(t, ok)

LiveSpec == Init /\ [][Next]_vars /\ WF_vars(PlatformAnswers) /\ WF_vars(StoreAnswers)

\* ================================================================ the map
\* The fleet collection `buses` and the presence collection `driverLocations`
\* are read through two independent listeners; BusMap draws what each last
\* delivered.  A collection is a sequence of documents in document order.
\* Coordinates are in units of 1/10000 of a degree, so that every literal of
\* the code is an integer; 0 stands for every falsy coordinate.

\* A store timestamp, read by the code through its `seconds`.
Timestamp(s) == [seconds |-> s]

\* A JavaScript Date (new Date()): it has no `seconds`.
Date(ms) == [date |-> ms]

\* `x?.seconds || 0`
SecondsOrZero(x) == IF "seconds" \in DOMAIN x THEN x.seconds ELSE 0

\* `e.latitude && e.longitude`
HasCoordinates(e) == e.latitude # 0 /\ e.longitude # 0

BusDoc(id, lat, lng, lastUpdated) ==
    [id |-> id, latitude |-> lat, longitude |-> lng, lastUpdated |-> lastUpdated]

DriverDoc(id, lat, lng, timestamp, isActive) ==
    [id |-> id, latitude |-> lat, longitude |-> lng, timestamp |-> timestamp,
     lastSeen |-> timestamp, isActive |-> isActive]

\* The demo fleet of the snapshot handler.
DemoBuses(t) ==
    << [id |-> "demo-bus-1", busId |-> "B001", latitude |-> 407128, longitude |-> -740060,
        route |-> "Route 1 - Downtown", status |-> "active", speed |-> 25, heading |-> 90,
        lastUpdated |-> Date(t)],
       [id |-> "demo-bus-2", busId |-> "B002", latitude |-> 407589, longitude |-> -739851,
        route |-> "Route 2 - Uptown", status |-> "active", speed |-> 30, heading |-> 180,
        lastUpdated |-> Date(t)],
       [id |-> "demo-bus-3", busId |-> "B003", latitude |-> 407505, longitude |-> -739934,
        route |-> "Route 3 - Crosstown", status |-> "maintenance", speed |-> 0, heading |-> 0,
        lastUpdated |-> Date(t)] >>

\* The demo fleet of the listener's error handler.
ErrorDemoBuses(t) ==
    << [id |-> "demo-bus-1", busId |-> "B001", latitude |-> 407128, longitude |-> -740060,
        route |-> "Route 1 - Downtown", status |-> "active", speed |-> 25, heading |-> 90,
        lastUpdated |-> Date(t)] >>

\* Array.prototype.sort with (a, b) => bTime - aTime: descending by seconds,
\* stable for equal keys.
RECURSIVE InsertByTime(_, _)
InsertByTime(sorted, b) ==
    IF sorted = <<>> THEN <<b>>
    ELSE IF SecondsOrZero(b.lastUpdated) - SecondsOrZero(Head(sorted).lastUpdated) > 0
         THEN <<b>> \o sorted
         ELSE <<Head(sorted)>> \o InsertByTime(Tail(sorted), b)

RECURSIVE SortByLastUpdated(_)
SortByLastUpdated(seq) ==
    IF seq = <<>> THEN <<>>
    ELSE InsertByTime(SortByLastUpdated(SubSeq(seq, 1, Len(seq) - 1)), seq[Len(seq)])

\* A snapshot hands over a list of new objects: an object selected from the
\* list it replaces is no longer one of the list held.
StillCurrent(selected) == IF selected # Null THEN FALSE ELSE selectionCurrent

\* What the handler does with the buses it kept: the fallback alone.
FleetWithoutDemo(kept, t) == SortByLastUpdated(kept)

\* The handler adding the buses it kept to the ones it handed over before.
FleetAppended(kept, t) ==
    IF Len(kept) = 0 THEN DemoBuses(t) ELSE SortByLastUpdated(buses \o kept)

\* What the handler does with the buses it kept: the demo fleet if it kept
\* none, else the kept buses sorted.
FleetOrDemo(kept, t) ==
    IF Len(kept) = 0 THEN DemoBuses(t) ELSE SortByLastUpdated(kept)

\* subscribeToBusLocations' snapshot handler, and the setter behind callback.
BusSnapshot(coll) ==
    /\ fleetListening
    /\ buses' = FleetOrDemo(SelectSeq(coll, HasCoordinates), now)
    /\ selectionCurrent' = StillCurrent(selectedBus)
    /\ focus' = <<>>
    /\ UNCHANGED <<selectedBus, selectedDriver, driverLocations, fleetListening, now>>

\* subscribeToBusLocations' error handler; the store ends a failed listener.
BusSnapshotError ==
    /\ fleetListening
    /\ fleetListening' = FALSE
    /\ buses' = ErrorDemoBuses(now)
    /\ selectionCurrent' = StillCurrent(selectedBus)
    /\ focus' = <<>>
    /\ UNCHANGED <<selectedBus, selectedDriver, driverLocations, now>>

\* The presence query: where('isActive', '==', true).
IsActiveDoc(d) == d.isActive = TRUE

\* The presence query with its filter lost.
PresenceQueryAll(coll) == coll

PresenceQuery(coll) == SelectSeq(coll, IsActiveDoc)

\* listenToDriverLocations' snapshot handler and setDriverLocations.
DriverSnapshot(coll) ==
    /\ driverLocations' = PresenceQuery(coll)
    /\ selectionCurrent' = StillCurrent(selectedDriver)
    /\ focus' = <<>>
    /\ UNCHANGED <<selectedBus, selectedDriver, buses, fleetListening, now>>

\* Time passes.
Tick(t) ==
    /\ t \in Clock
    /\ t > now
    /\ now' = t
    /\ focus' = <<>>
    /\ UNCHANGED <<selectedBus, selectedDriver, buses, driverLocations, fleetListening,
                   selectionCurrent>>

\* ------------------------------------------------------------- what is drawn
\* The markers of the fleet: buses.map, skipping a bus without coordinates.
BusMarkers == SelectSeq(buses, HasCoordinates)

\* The age limit of a live driver marker, in milliseconds.
RecentMs == 300000

\* isRecent with <= for <.
IsRecentInclusive(driver, t) ==
    /\ driver.timestamp # Null
    /\ t - driver.timestamp.seconds * 1000 <= RecentMs

\* isRecent of the driver marker, as a boolean.
IsRecent(driver, t) ==
    /\ driver.timestamp # Null
    /\ t - driver.timestamp.seconds * 1000 < RecentMs

\* The markers of the drivers with the stale ones left out.
DriverMarkersRecentOnly ==
    LET shown == SelectSeq(driverLocations, LAMBDA d : HasCoordinates(d) /\ IsRecent(d, now))
    IN  [i \in 1..Len(shown) |-> [driver |-> shown[i], isRecent |-> TRUE]]

\* The markers of the drivers: driverLocations.map, skipping a driver
\* without coordinates; each carries the isRecent its icon is made of.
DriverMarkers ==
    LET shown == SelectSeq(driverLocations, HasCoordinates)
    IN  [i \in 1..Len(shown) |-> [driver |-> shown[i], isRecent |-> IsRecent(shown[i], now)]]

\* A quotient of two integers, kept exact.
Fraction(n, d) == [num |-> n, den |-> d]

\* defaultCenter: New York City.
DefaultCenter == <<Fraction(407128, 1), Fraction(-740060, 1)>>

RECURSIVE SumLatitude(_)
SumLatitude(seq) == IF seq = <<>> THEN 0 ELSE seq[1].latitude + SumLatitude(Tail(seq))

RECURSIVE SumLongitude(_)
SumLongitude(seq) == IF seq = <<>> THEN 0 ELSE seq[1].longitude + SumLongitude(Tail(seq))

\* getMapCenter over the fleet alone.
MapCenterOfBuses(bs, ds) ==
    LET allLocations == SelectSeq(bs, HasCoordinates)
    IN  IF Len(allLocations) = 0 THEN DefaultCenter
        ELSE <<Fraction(SumLatitude(allLocations), Len(allLocations)),
               Fraction(SumLongitude(allLocations), Len(allLocations))>>

\* getMapCenter.
MapCenter(bs, ds) ==
    LET allLocations == SelectSeq(bs, HasCoordinates) \o SelectSeq(ds, HasCoordinates)
    IN  IF Len(allLocations) = 0 THEN DefaultCenter
        ELSE <<Fraction(SumLatitude(allLocations), Len(allLocations)),
               Fraction(SumLongitude(allLocations), Len(allLocations))>>

getMapCenter == MapCenter(buses, driverLocations)

\* ---------------------------------------------------------------- selection
\* The new selectedDriver of handleBusSelect, with the clearing forgotten.
BusSelectKeepsDriver(driver) == driver

\* The new selectedDriver of handleBusSelect.
BusSelectClearsDriver(driver) == Null

\* The new selectedBus of handleDriverSelect, with the clearing forgotten.
DriverSelectKeepsBus(bus) == bus

\* The new selectedBus of handleDriverSelect.
DriverSelectClearsBus(bus) == Null

\* The zoom of MapUpdater's setView calls.
FocusZoom == 15

\* map.setView([latitude, longitude], 15)
SetView(e) == [coordinate |-> <<e.latitude, e.longitude>>, zoom |-> FocusZoom]

\* A focus effect with its test of the coordinates forgotten.
FocusEffectUntested(changed, selected) ==
    IF changed /\ selected # Null THEN <<SetView(selected)>> ELSE <<>>

\* One focus effect of MapUpdater: it runs after a render in which its
\* dependency, the selected object, is another object than before, and calls
\* setView if the object is there and has its two coordinates.
FocusEffect(changed, selected) ==
    IF changed /\ selected # Null /\ HasCoordinates(selected)
    THEN <<SetView(selected)>> ELSE <<>>

\* The two focus effects of MapUpdater after the render of a selection.
MapUpdater(busChanged, driverChanged) ==
    focus' = FocusEffect(busChanged, selectedBus') \o FocusEffect(driverChanged, selectedDriver')

\* The entity handed to a select handler is the very object selected: it is
\* equal to it and of the list the selection was made from.
SameObject(selected, e) == selectionCurrent /\ selected = e

handleBusSelect(bus) ==
    /\ selectedBus' = bus
    /\ selectedDriver' = BusSelectClearsDriver(selectedDriver)
    /\ selectionCurrent' = TRUE
    /\ MapUpdater(~SameObject(selectedBus, bus), selectedDriver' # selectedDriver)
    /\ UNCHANGED <<buses, driverLocations, fleetListening, now>>

handleDriverSelect(driver) ==
    /\ selectedDriver' = driver
    /\ selectedBus' = DriverSelectClearsBus(selectedBus)
    /\ selectionCurrent' = TRUE
    /\ MapUpdater(selectedBus' # selectedBus, ~SameObject(selectedDriver, driver))
    /\ UNCHANGED <<buses, driverLocations, fleetListening, now>>

\* The close button of the selection panel, shown while something is selected.
ClosePanel ==
    /\ selectedBus # Null \/ selectedDriver # Null
    /\ selectedBus' = Null
    /\ selectedDriver' = Null
    /\ selectionCurrent' = FALSE
    /\ MapUpdater(selectedBus # Null, selectedDriver # Null)
    /\ UNCHANGED <<buses, driverLocations, fleetListening, now>>

\* The click of a bus marker.
BusMarkerClick(i) ==
    /\ i \in 1..Len(BusMarkers)
    /\ handleBusSelect(BusMarkers[i])

\* The click of a driver marker.
DriverMarkerClick(i) ==
    /\ i \in 1..Len(DriverMarkers)
    /\ handleDriverSelect(DriverMarkers[i].driver)

\* The click of a bus of the sidebar's list: the list is the view's buses.
SidebarBusClick(i) ==
    /\ i \in 1..Len(buses)
    /\ handleBusSelect(buses[i])

\* The click of a driver of the sidebar's list, any entry the view holds.
SidebarDriverClick(i) ==
    /\ i \in 1..Len(driverLocations)
    /\ handleDriverSelect(driverLocations[i])

\* ------------------------------------------------------------------- inputs
\* The collections of documents `docs[id]` over the ids, in the order `ids`:
\* any document of an id, or none.
RECURSIVE Collections(_, _)
Collections(ids, docs) ==
    IF ids = <<>> THEN {<<>>}
    ELSE LET rest == Collections(Tail(ids), docs)
         IN  rest \cup {<<d>> \o r : d \in docs[Head(ids)], r \in rest}

Coordinates == {<<0, 0>>, <<400000, -740000>>, <<420000, -720000>>}

BusDocs(id) ==
    {BusDoc(id, c[1], c[2], u) :
        c \in Coordinates, u \in {Null, Timestamp(100), Timestamp(101)}}

DriverDocs(id) ==
    {DriverDoc(id, c[1], c[2], ts, TRUE) : c \in Coordinates, ts \in {Null, Timestamp(100)}}
        \cup {DriverDoc(id, 400000, -740000, Timestamp(100), FALSE)}

FleetCollections ==
    Collections(<<"bus-1", "bus-2">>, [id \in {"bus-1", "bus-2"} |-> BusDocs(id)])

PresenceCollections ==
    Collections(<<"driver-1", "driver-2">>, [id \in {"driver-1", "driver-2"} |-> DriverDocs(id)])

\* The hook is idle while the map is looked at.
HookIdle ==
    /\ isSharing = FALSE
    /\ loading = FALSE
    /\ error = ""
    /\ hasGeo = TRUE
    /\ locationPermission = "unknown"
    /\ permQuery = "pending"
    /\ watchIdRef = 0
    /\ mounted = TRUE
    /\ registered = {}
    /\ nextWatchId = 1
    /\ store = NoDoc
    /\ tasks = EmptyBag
    /\ nCalls = 0
    /\ nPos = 0
    /\ ret = NoRet
    /\ cancelled = {}

hookVars == <<isSharing, loading, error, locationPermission, watchIdRef, mounted,
              permQuery, hasGeo, registered, nextWatchId, store, tasks,
              nCalls, nPos, ret, cancelled>>

MapInit ==
    /\ MapIdle
    /\ now \in Clock
    /\ HookIdle

\* The two listeners and the clock.
MapNext ==
    \/ UNCHANGED hookVars /\ \E coll \in FleetCollections : BusSnapshot(coll)
    \/ UNCHANGED hookVars /\ BusSnapshotError
    \/ UNCHANGED hookVars /\ \E coll \in PresenceCollections : DriverSnapshot(coll)
    \/ UNCHANGED hookVars /\ \E t \in Clock : Tick(t)

MapSpec == MapInit /\ [][MapNext]_vars

\* The collections the selection is explored over: one bus with coordinates
\* and two drivers, with coordinates or without, each with one timestamp.
SelectFleetCollections ==
    {c \in FleetCollections :
        /\ Len(c) <= 1
        /\ \A i \in 1..Len(c) : HasCoordinates(c[i]) /\ c[i].lastUpdated = Timestamp(100)}

SelectPresenceCollections ==
    {c \in PresenceCollections :
        \A i \in 1..Len(c) : c[i].isActive /\ c[i].timestamp = Timestamp(100)}

SelectInit ==
    /\ MapIdle
    /\ now = CHOOSE t \in Clock : \A u \in Clock : t <= u
    /\ HookIdle

\* The two listeners and the user's clicks.
SelectNext ==
    \/ UNCHANGED hookVars /\ \E coll \in SelectFleetCollections : BusSnapshot(coll)
    \/ UNCHANGED hookVars /\ BusSnapshotError
    \/ UNCHANGED hookVars /\ \E coll \in SelectPresenceCollections : DriverSnapshot(coll)
    \/ UNCHANGED hookVars /\ \E i \in 1..Len(BusMarkers) : BusMarkerClick(i)
    \/ UNCHANGED hookVars /\ \E i \in 1..Len(DriverMarkers) : DriverMarkerClick(i)
    \/ UNCHANGED hookVars /\ \E i \in 1..Len(buses) : SidebarBusClick(i)
    \/ UNCHANGED hookVars /\ \E i \in 1..Len(driverLocations) : SidebarDriverClick(i)
    \/ UNCHANGED hookVars /\ ClosePanel

SelectSpec == SelectInit /\ [][SelectNext]_vars

\* ------------------------------------------------------------------ claims
PendingUpdates == {t \in InFlight : t.pc = "update_pending"}

DeniedTrackingMsg == TrackingPrefix \o "Location access denied by user"

\* C1: while the owning component is mounted, a presence record of the driver
\* exists in the store iff the session is sharing (it last reached Active and
\* has not since completed a stop), whatever calls or watch-triggered writes
\* are still in flight.
C1_PresenceIffActive == mounted => (store.exists <=> isSharing)

\* C2: the store applies the merge-updates of successive watch callbacks in
\* the order the callbacks arrived: the position of every update it applies to
\* the record is later than the position the record holds from the write
\* applied before.
C2_WritesInArrivalOrder ==
    [][\A t \in InFlight :
        (t.pc = "update_pending" /\ StoreWrite(t, TRUE) /\ store.exists) =>
            t.pos > store.pos]_vars

\* C3: at most one merge-update write of the session is in flight at any
\* moment.
C3_OneWriteInFlight == Cardinality(PendingUpdates) <= 1

\* C4: startSharing called with a capability pair other than (true, true)
\* resolves in the same step with success false and the capability error,
\* issues no position request (no call is left in flight), opens and cancels
\* no watch, leaves the store alone and leaves isSharing as it was.
C4_CapabilityGate ==
    [][\A d \in BOOLEAN, v \in BOOLEAN, a \in BOOLEAN :
        (StartSharing(d, v, a) /\ ~(d /\ v)) =>
            /\ ret' = Ret("start", FALSE, "user")
            /\ error' = CapabilityMsg
            /\ tasks' = tasks
            /\ registered' = registered
            /\ watchIdRef' = watchIdRef
            /\ store' = store
            /\ isSharing' = isSharing
            /\ loading' = loading]_vars

\* C4's case: a start is refused for want of capability while the session is
\* sharing, with its watch open and its record in the store.
C4_Witness ==
    /\ ret = Ret("start", FALSE, "user")
    /\ error = CapabilityMsg
    /\ isSharing
    /\ registered # {}
    /\ store.exists

\* C5: when stopSharing returns success no watch is registered any more and
\* the delete has been applied: the record is gone.
C5_StopSuccessMeansStopped ==
    (ret.kind = "stop" /\ ret.success) => (registered = {} /\ ~store.exists)

\* C6: the teardown of the owning component of a sharing session does what
\* stopSharing does: it cancels the watch and issues the delete of the record.
C6_UnmountStops ==
    [][(Unmount /\ isSharing /\ store.exists) =>
        /\ registered' = {}
        /\ \E t \in BagToSet(tasks') : t.pc = "delete_pending" /\ ~BagIn(t, tasks)]_vars

\* C7: a merge-update the store rejects while the session is sharing is
\* reported ('Failed to update location') and changes nothing else: the
\* session stays sharing, the watch registration and its handle stay, the
\* record is left as it is, no stop or other call is started, and the watch
\* that issued the write is still there to deliver the next position.
C7_FailedUpdateKeepsState ==
    [][\A t \in InFlight :
        (t.pc = "update_pending" /\ StoreWrite(t, FALSE) /\ mounted /\ isSharing) =>
            /\ error' = UpdateFailedMsg
            /\ isSharing'
            /\ registered' = registered
            /\ watchIdRef' = watchIdRef
            /\ cancelled' = {}
            /\ store' = store
            /\ tasks' = Finish(tasks, t)
            /\ ret' = NoRet]_vars

\* C7's case: the failure of the first update has been reported, the session
\* is still sharing with its watch open, and the next callback's write is in
\* flight.
C7_Witness ==
    /\ error = UpdateFailedMsg
    /\ isSharing
    /\ registered # {}
    /\ store.exists
    /\ store.pos = 0
    /\ \E t \in PendingUpdates : t.pos = 2

\* C8: a watch error of code TIMEOUT or POSITION_UNAVAILABLE delivered while
\* the session is sharing is reported and changes nothing else: the session
\* stays sharing, the watch stays registered and no delete is issued.
C8_NonCriticalWatchErrorKeepsState ==
    [][\A c \in {"TIMEOUT", "POSITION_UNAVAILABLE"} :
        (WatchError(c) /\ mounted /\ isSharing) =>
            /\ error' = TrackingPrefix \o ErrorMessage(GeolocationPositionError(c))
            /\ isSharing'
            /\ registered' = registered
            /\ tasks' = tasks]_vars

\* C9: when the stop forced by a PERMISSION_DENIED watch error has completed,
\* the watch is cancelled, the record is deleted, the session is not sharing
\* and the reported error still names the permission denial.
C9_DeniedEndsInError ==
    (ret = Ret("stop", TRUE, "PERMISSION_DENIED") /\ mounted) =>
        /\ registered = {}
        /\ ~store.exists
        /\ ~isSharing
        /\ error = DeniedTrackingMsg

\* C10: the session holds at most one watch registration at any time.
C10_OneWatch == Cardinality(registered) <= 1

\* C10's case: a start that resolved in this step found a watch open,
\* cancelled it and registered the new one.
C10_Witness ==
    /\ ret.kind = "start"
    /\ ret.success
    /\ cancelled # {}
    /\ Cardinality(registered) = 1
    /\ watchIdRef \in registered
    /\ cancelled \cap registered = {}

\* The Selection of the view: its kind and the selected entity's id.
Selection ==
    IF selectedBus # Null /\ selectedDriver # Null THEN [kind |-> "both", entityId |-> ""]
    ELSE IF selectedBus # Null THEN [kind |-> "bus", entityId |-> selectedBus.id]
    ELSE IF selectedDriver # Null THEN [kind |-> "driver", entityId |-> selectedDriver.id]
    ELSE [kind |-> "none", entityId |-> ""]

\* C11: the selection is exclusive across kinds.  Clicking driver D, whatever
\* was selected, leaves exactly {driver, D} selected; clicking a bus, whatever
\* was selected, leaves exactly that bus selected; closing the panel clears
\* both; and a bus and a driver are never selected together.
C11_SelectionExclusive ==
    [][ /\ \A i \in 1..Len(DriverMarkers) :
              DriverMarkerClick(i) =>
                  /\ Selection' = [kind |-> "driver", entityId |-> DriverMarkers[i].driver.id]
                  /\ selectedDriver' = DriverMarkers[i].driver
                  /\ selectedBus' = Null
        /\ \A i \in 1..Len(BusMarkers) :
              BusMarkerClick(i) =>
                  /\ Selection' = [kind |-> "bus", entityId |-> BusMarkers[i].id]
                  /\ selectedBus' = BusMarkers[i]
                  /\ selectedDriver' = Null
        /\ ClosePanel => Selection' = [kind |-> "none", entityId |-> ""]
        /\ Selection'.kind # "both" ]_vars

\* C11 witness: a bus is selected and the marker of a driver is there to be
\* clicked.
C11_Witness ==
    /\ Selection.kind = "bus"
    /\ Len(DriverMarkers) > 0

\* The merged entities the view draws from: each bus and each driver it holds,
\* tagged with its kind.
Tagged(kind, seq) == {[kind |-> kind, entity |-> seq[i]] : i \in 1..Len(seq)}

MergedOutput == Tagged("Fleet", buses) \cup Tagged("Presence", driverLocations)

\* The entries of a presence snapshot: the active documents of the collection.
PresenceEntries(coll) == {coll[i] : i \in {j \in 1..Len(coll) : coll[j].isActive}}

AgeMs(d) == now - d.lastSeen.seconds * 1000

\* isStale of a drawn driver: its marker is not given the live icon.
IsStale(m) == ~m.isRecent

\* C13: a presence entry that has a lastSeenAt is live exactly when
\* now - lastSeenAt is strictly less than 300 s: at 299 s it is not stale, at
\* 300 s and at 301 s it is.
C13_LiveIffUnder300s ==
    \A i \in 1..Len(DriverMarkers) :
        LET m == DriverMarkers[i]
        IN  m.driver.lastSeen # Null =>
                /\ ~IsStale(m) <=> AgeMs(m.driver) < 300 * 1000
                /\ AgeMs(m.driver) = 299 * 1000 => ~IsStale(m)
                /\ AgeMs(m.driver) = 300 * 1000 => IsStale(m)
                /\ AgeMs(m.driver) = 301 * 1000 => IsStale(m)

\* C13 witness: a driver is drawn whose entry is exactly 300 s old.
C13_Witness ==
    \E i \in 1..Len(DriverMarkers) :
        /\ DriverMarkers[i].driver.lastSeen # Null
        /\ AgeMs(DriverMarkers[i].driver) = 300 * 1000
        /\ IsStale(DriverMarkers[i])

\* The entities of the view that have coordinates, each named by its kind and
\* its place in its list.
Located ==
    {<<"Fleet", i>> : i \in {j \in 1..Len(buses) : HasCoordinates(buses[j])}}
        \cup {<<"Presence", i>> :
                 i \in {j \in 1..Len(driverLocations) : HasCoordinates(driverLocations[j])}}

EntityAt(e) == IF e[1] = "Fleet" THEN buses[e[2]] ELSE driverLocations[e[2]]

LatitudeOf(e) == EntityAt(e).latitude

LongitudeOf(e) == EntityAt(e).longitude

\* The sum of f[e] over the e of S.
RECURSIVE Total(_, _)
Total(S, f) ==
    IF S = {} THEN 0
    ELSE LET e == CHOOSE x \in S : TRUE IN f[e] + Total(S \ {e}, f)

Latitudes == [e \in Located |-> LatitudeOf(e)]

Longitudes == [e \in Located |-> LongitudeOf(e)]

\* The fraction q is the number k.
IsNumber(q, k) == q.num = k * q.den

\* C14: with nothing selected the viewpoint is the centroid of all the buses
\* and drivers that have coordinates, the mean of their latitudes and the mean
\* of their longitudes: entities at (40, -74) and (42, -72) give (41, -73); and
\* it is the default coordinate (40.7128, -74.0060) when none has coordinates.
C14_CentroidOrDefault ==
    Selection.kind = "none" =>
        LET n == Cardinality(Located)
            c == getMapCenter
        IN  /\ n = 0 => IsNumber(c[1], 407128) /\ IsNumber(c[2], -740060)
            /\ n > 0 =>
                  /\ c[1].den > 0 /\ c[2].den > 0
                  /\ c[1].num * n = Total(Located, Latitudes) * c[1].den
                  /\ c[2].num * n = Total(Located, Longitudes) * c[2].den
            /\ {<<LatitudeOf(e), LongitudeOf(e)>> : e \in Located}
                       = {<<400000, -740000>>, <<420000, -720000>>}
                   /\ n = 2
                   => IsNumber(c[1], 410000) /\ IsNumber(c[2], -730000)

\* C14 witness: a bus at (40, -74) and a driver at (42, -72) are all there is
\* with coordinates, and the viewpoint is (41, -73).
C14_Witness ==
    /\ Selection.kind = "none"
    /\ Cardinality(Located) = 2
    /\ \E b \in 1..Len(buses), d \in 1..Len(driverLocations) :
          /\ <<buses[b].latitude, buses[b].longitude>> = <<400000, -740000>>
          /\ <<driverLocations[d].latitude, driverLocations[d].longitude>> = <<420000, -720000>>
    /\ IsNumber(getMapCenter[1], 410000)
    /\ IsNumber(getMapCenter[2], -730000)

\* The calls in flight that are parked on a one-shot position request.
PositionRequests(bag) ==
    {t \in BagToSet(bag) : t.pc \in {"perm_fetch", "acq_fetch"}}

\* The calls in flight that are parked on the delete of the record.
Deletes(bag) == {t \in BagToSet(bag) : t.pc = "delete_pending"}

\* How many calls of the set the bag holds.
RECURSIVE Copies(_, _)
Copies(bag, S) ==
    IF S = {} THEN 0
    ELSE LET t == CHOOSE x \in S : TRUE IN CopiesIn(t, bag) + Copies(bag, S \ {t})

\* C15: toggle() is stop() when the session is sharing and start() when it is
\* not: a toggle while not sharing issues no delete, and a toggle while sharing
\* issues no position request.
C15_ToggleStopsOrStarts ==
    [][ \A d \in BOOLEAN, v \in BOOLEAN, a \in BOOLEAN :
            ToggleSharing(d, v, a) =>
                /\ isSharing =>
                      /\ StopSharing(a)
                      /\ Copies(tasks', PositionRequests(tasks'))
                             = Copies(tasks, PositionRequests(tasks))
                      /\ a => Copies(tasks', Deletes(tasks')) = Copies(tasks, Deletes(tasks)) + 1
                /\ ~isSharing =>
                      /\ StartSharing(d, v, a)
                      /\ Copies(tasks', Deletes(tasks')) = Copies(tasks, Deletes(tasks))
                      /\ registered' = registered ]_vars

\* C15 witness: the session is sharing and a toggle can be made.
C15_Witness ==
    /\ mounted
    /\ isSharing
    /\ registered # {}
    /\ nCalls < MaxCalls

\* The session is stopped: not sharing, no record, no watch.
Stopped == ~isSharing /\ ~store.exists /\ registered = {} /\ watchIdRef = 0

\* C16: stop() is idempotent.  A stop() called on a stopped session with no
\* call in flight (Idle, or after a stop()) sets no error and only issues the
\* delete; and when that delete resolves, the session still stopped and no
\* other call in flight, the stop returns success, reports no error, and the
\* session is stopped and not loading: the state a single stop() leaves.
C16_StopIdempotent ==
    [][ /\ (StopSharing(TRUE) /\ Stopped /\ tasks = EmptyBag) =>
              /\ Stopped'
              /\ error' = ""
              /\ ret' = NoRet
              /\ tasks' = SetToBag({Task("stop", "delete_pending", 0, "user")})
        /\ \A t \in InFlight :
              ( /\ t.pc = "delete_pending"
                /\ Stopped
                /\ tasks = SetToBag({t})
                /\ mounted
                /\ StoreWrite(t, TRUE) ) =>
                  /\ ret' = Ret("stop", TRUE, t.cause)
                  /\ error' = error
                  /\ ~loading'
                  /\ Stopped'
                  /\ tasks' = EmptyBag ]_vars

\* C16 witness: the only call ever made was a stop(), with no record in the
\* store, and it has returned success.
C16_Witness ==
    /\ ret = Ret("stop", TRUE, "user")
    /\ nCalls = 1
    /\ Stopped
    /\ error = ""
    /\ ~loading
    /\ tasks = EmptyBag

\* The session is Idle or Error: not sharing, no call in flight.
IdleOrError == ~isSharing /\ tasks = EmptyBag

\* start() went on to ask for the permission / to acquire the position.
EntersRequestingPermission ==
    tasks' = Spawn(tasks, Task("start", "perm_fetch", 0, "user"))

EntersAcquiring ==
    tasks' = Spawn(tasks, Task("start", "acq_fetch", 0, "user"))

\* C17 as claimed: start() with (true, true), by a signed-in user on a device
\* with geolocation, from Idle/Error, requests the permission first when the
\* permission is denied or unknown and goes directly to Acquiring when it is
\* granted.
C17_RequestsWhenDeniedOrUnknown ==
    [][ (StartSharing(TRUE, TRUE, TRUE) /\ IdleOrError /\ hasGeo) =>
            /\ locationPermission \in {"denied", "unknown"} => EntersRequestingPermission
            /\ locationPermission = "granted" => EntersAcquiring ]_vars

\* C17 as amended: start() with (true, true), by a signed-in user on a device
\* with geolocation, from Idle/Error, requests the permission first when the
\* permission is denied (or prompt), and goes directly to Acquiring when it is
\* granted or unknown.
C17_RequestsWhenDenied ==
    [][ (StartSharing(TRUE, TRUE, TRUE) /\ IdleOrError /\ hasGeo) =>
            /\ locationPermission \in {"denied", "prompt"} => EntersRequestingPermission
            /\ locationPermission \in {"granted", "unknown"} => EntersAcquiring ]_vars

\* C17 witness: the first call was a start() under a denied permission, and it
\* is parked on the permission request.
C17_Witness ==
    /\ nCalls = 1
    /\ locationPermission = "denied"
    /\ tasks = SetToBag({Task("start", "perm_fetch", 0, "user")})

\* What getCurrentPosition reports of a denied request.
DeniedMsg == "Location access denied by user"

\* C18: when the permission request of a start() is denied, the start returns
\* failure with the denial as the error and the permission denied; it does not
\* go on to Acquiring, issues no write, leaves the record and the watches as
\* they are, and a session that was not sharing is not sharing.
C18_DeniedRequestEndsInError ==
    [][ \A t \in InFlight :
            ( /\ t.kind = "start"
              /\ t.pc = "perm_fetch"
              /\ mounted
              /\ PositionFetched(t, "PERMISSION_DENIED") ) =>
                /\ ret' = Ret("start", FALSE, t.cause)
                /\ error' = DeniedMsg
                /\ locationPermission' = "denied"
                /\ ~loading'
                /\ tasks' = Finish(tasks, t)
                /\ store' = store
                /\ registered' = registered
                /\ watchIdRef' = watchIdRef
                /\ isSharing' = isSharing
                /\ ~isSharing => ~isSharing' ]_vars

\* C18 witness: the one call made was a start() whose permission request was
\* denied: it has returned failure, nothing is in flight, nothing was written.
C18_Witness ==
    /\ nCalls = 1
    /\ ret = Ret("start", FALSE, "user")
    /\ error = DeniedMsg
    /\ locationPermission = "denied"
    /\ tasks = EmptyBag
    /\ ~isSharing
    /\ ~store.exists
    /\ registered = {}

\* The calls in flight that are parked on the create of the record.
PendingCreates == {t \in InFlight : t.pc = "create_pending"}

\* C19: the session starts sharing and opens a watch only in the step in
\* which the full create of a start() resolves successfully, and a call waits
\* on that create only once its one-shot fetch has succeeded; so no watch
\* callback issues a write before a create write has resolved: until the
\* first watch is opened no position is delivered and no merge-update is in
\* flight.
C19_ActiveOnlyAfterCreate ==
    [][ /\ ((isSharing' /\ ~isSharing) \/ ~(registered' \subseteq registered)) =>
              \E t \in PendingCreates :
                  /\ StoreWrite(t, TRUE)
                  /\ store' = CreateDoc(t.pos)
                  /\ store'.profile
                  /\ ret' = Ret("start", TRUE, t.cause)
        /\ (tasks' # tasks /\ PendingCreates' # PendingCreates) =>
              \A t \in PendingCreates' \ PendingCreates :
                  \E u \in InFlight : u.pc = "acq_fetch" /\ PositionFetched(u, "ok")
        /\ nextWatchId' = 1 => (nPos' = 0 /\ PendingUpdates' = {} /\ registered' = {})
        /\ WatchPosition => (registered # {} /\ nextWatchId > 1) ]_vars

\* C19 witness: the create has resolved, the session shares with its watch
\* open, and the watch has a merge-update in flight.
C19_Witness ==
    /\ isSharing
    /\ store.exists
    /\ store.profile
    /\ registered = {1}
    /\ PendingUpdates # {}

\* What getCurrentPosition reports of each rejection.
FetchFailureMsg(code) ==
    IF code = "PERMISSION_DENIED" THEN DeniedMsg
    ELSE IF code = "POSITION_UNAVAILABLE" THEN "Location information unavailable"
    ELSE "Location request timed out"

\* C20: when the one-shot fetch of a start() in Acquiring fails, or its create
\* write is rejected, the start returns failure and reports an error message
\* (the fetch's reason, or the store's), is no longer loading, opens no watch
\* and does not start sharing: a session that was not sharing is not sharing.
\* The failed fetch issues no write: the call leaves flight and the store is
\* as it was.
C20_AcquireFailureEndsInError ==
    [][ \A t \in InFlight :
            /\ \A code \in ErrorCodes :
                  ( /\ t.kind = "start"
                    /\ t.pc = "acq_fetch"
                    /\ mounted
                    /\ PositionFetched(t, code) ) =>
                      /\ ret' = Ret("start", FALSE, t.cause)
                      /\ error' = FetchFailureMsg(code)
                      /\ ~loading'
                      /\ tasks' = Finish(tasks, t)
                      /\ {u \in InFlight' : u.pc \in {"create_pending", "update_pending"}}
                             \subseteq InFlight
                      /\ store' = store
                      /\ registered' = registered
                      /\ isSharing' = isSharing
            /\ ( /\ t.pc = "create_pending"
                 /\ mounted
                 /\ StoreWrite(t, FALSE) ) =>
                      /\ ret' = Ret("start", FALSE, t.cause)
                      /\ error' # ""
                      /\ ~loading'
                      /\ tasks' = Finish(tasks, t)
                      /\ store' = store
                      /\ registered' = registered
                      /\ isSharing' = isSharing ]_vars

\* C20 witness: the one call made was a start() whose one-shot fetch timed
\* out in Acquiring: it has returned failure with the reason, nothing is in
\* flight, nothing was written, no watch is open.
C20_Witness ==
    /\ nCalls = 1
    /\ ret = Ret("start", FALSE, "user")
    /\ error = "Location request timed out"
    /\ locationPermission \in {"unknown", "granted"}
    /\ tasks = EmptyBag
    /\ ~isSharing
    /\ ~store.exists
    /\ registered = {}

\* No watch is open and no start() or request() is in flight.
Quiet ==
    /\ registered = {}
    /\ \A t \in InFlight : t.kind \notin {"start", "request"}

\* The step is a call of the user's: start(), stop(), toggle() or request().
\* Each of them, and no other step, counts in nCalls.
UserCall == nCalls' # nCalls

\* C21: after a PermissionDenied or CapabilityDenied failure the session does
\* not retry by itself.  A start() refused for its capability issues nothing;
\* a start() whose permission request is denied, and a watch that reports
\* PERMISSION_DENIED, issue nothing but the delete of the forced stop and
\* leave no watch open and no start() or request() in flight (when none
\* other was); and from then on no step but a call of the user's issues a
\* position request, a watch registration or a store write: the calls in
\* flight only resolve.
C21_NoAutomaticRetry ==
    [][ /\ (~UserCall /\ Quiet) =>
              /\ registered' = {}
              /\ tasks' = tasks \/ \E t \in InFlight : tasks' = Finish(tasks, t)
        /\ ( /\ UserCall
             /\ error' = CapabilityMsg
             /\ ret' = Ret("start", FALSE, "user") ) =>
                (tasks' = tasks /\ registered' = registered)
        /\ \A t \in InFlight :
              ( /\ t.pc = "perm_fetch"
                /\ t.kind = "start"
                /\ tasks' # tasks
                /\ PositionFetched(t, "PERMISSION_DENIED") ) =>
                    /\ tasks' = Finish(tasks, t)
                    /\ registered' = registered
                    /\ ( /\ registered = {}
                         /\ \A u \in InFlight : u.kind \in {"start", "request"} => u = t
                         /\ CopiesIn(t, tasks) = 1 ) => Quiet'
        /\ ( /\ registered # {}
             /\ mounted
             /\ \A t \in InFlight : t.kind \notin {"start", "request"}
             /\ WatchError("PERMISSION_DENIED") ) =>
                /\ Quiet'
                /\ tasks' = Spawn(tasks, Task("stop", "delete_pending", 0, "PERMISSION_DENIED")) ]_vars

\* C21 witness: the watch of a sharing session has reported PERMISSION_DENIED:
\* the forced stop is in flight, no watch is open, no start() is in flight.
C21_Witness ==
    /\ Quiet
    /\ isSharing
    /\ \E t \in InFlight : t.kind = "stop" /\ t.cause = "PERMISSION_DENIED"

\* C22: every error the position source hands to the session keeps its kind
\* with its message, so that the watch error handler tells PermissionDenied
\* from the other kinds: when the watch reports an error, the handler finds
\* the error it is handed critical iff the platform's code was
\* PERMISSION_DENIED, and the session stops only then.
C22_WatchErrorKeepsKind ==
    [][\A c \in ErrorCodes :
          (registered # {} /\ WatchError(c)) =>
              LET e == WrappedError(GeolocationPositionError(c)) IN
              /\ IsCritical(e) <=> (c = "PERMISSION_DENIED")
              /\ (c # "PERMISSION_DENIED") => (tasks' = tasks /\ registered' = registered)]_vars

\* C23: a merge-update a watch callback issued, applied to an existing
\* record, replaces the position (with its timestamps) and nothing else: the
\* record is still there, still active, and the fields only the create
\* writes (driver id, display name, bus number, route, createdAt) are as they
\* were.
C23_MergeKeepsProfile ==
    [][\A t \in InFlight :
          ( /\ t.pc = "update_pending"
            /\ store.exists
            /\ tasks' # tasks
            /\ StoreWrite(t, TRUE) ) =>
              /\ store' = [store EXCEPT !.pos = t.pos]
              /\ store'.profile = store.profile ]_vars

\* C23 witness: a merge-update has changed the position of a record that has
\* the fields of its create.
C23_Witness ==
    /\ store.exists
    /\ store.profile
    /\ store.pos > 0
    /\ \E t \in InFlight : t.pc = "update_pending" /\ t.pos # store.pos

PermissionStates == {"unknown", "granted", "denied", "unavailable"}

\* C24 as stated: the permission state the session exposes is always one of
\* unknown, granted, denied and unavailable.
C24_PermissionStateInEnum == locationPermission \in PermissionStates

\* C24: the permission state the session exposes is always one of unknown,
\* granted, denied, unavailable and prompt, the platform's state for a
\* permission not yet asked for.
C24_PermissionStateInEnumOrPrompt ==
    locationPermission \in PermissionStates \cup {"prompt"}

\* C24 witness: the query has reported 'prompt' and a request() is waiting
\* for the user's answer.
C24_Witness ==
    /\ locationPermission = "prompt"
    /\ permQuery = "listening"
    /\ \E t \in InFlight : t.kind = "request" /\ t.pc = "perm_fetch"

\* C25: request() maps the outcome of its fetch to one state: success to
\* granted, the user's refusal to denied, and a device without a position
\* facility, or a position that cannot be obtained, to unavailable.
C25_RequestMapsOutcome ==
    [][ /\ (RequestPermission /\ ~hasGeo) => locationPermission' = "unavailable"
        /\ \A t \in InFlight :
              (t.pc = "perm_fetch" /\ t.kind = "request" /\ mounted) =>
                  /\ PositionFetched(t, "ok") => locationPermission' = "granted"
                  /\ PositionFetched(t, "PERMISSION_DENIED") => locationPermission' = "denied"
                  /\ PositionFetched(t, "POSITION_UNAVAILABLE") =>
                        locationPermission' = "unavailable" ]_vars

\* C26 as stated: the state the mount-time query leaves, before any call or
\* change, is the platform's state or unknown, with no error.
C26_QueryGivesPlatformStateOrUnknown ==
    (nCalls = 0 /\ permQuery \in {"none", "listening"}) =>
        /\ locationPermission \in PlatformPermissionStates \cup {"unknown"}
        /\ error = ""

\* C26: on a device with a position facility the query yields the platform's
\* permission state when the permission facility answers and unknown, with no
\* failure and no error message, when the facility is absent or its query
\* throws; on a device without a position facility the query is not made and
\* the state is unavailable, with no error message either.
C26_QueryGivesPlatformStateOrUnknownOrUnavailable ==
    /\ [](( /\ ~hasGeo
            /\ nCalls = 0 ) => (locationPermission = "unavailable" /\ error = ""))
    /\ [][\A s \in PlatformPermissionStates \cup {"throws"} :
            (mounted /\ PermissionQueryResolved(s)) =>
                /\ hasGeo
                /\ locationPermission' = IF s = "throws" THEN "unknown" ELSE s
                /\ error' = error
                /\ error = ""
                /\ ret' = NoRet]_vars

\* C26 witness: the query threw and left unknown, with no error message.
C26_Witness ==
    /\ hasGeo
    /\ permQuery = "none"
    /\ locationPermission = "unknown"
    /\ error = ""
    /\ nCalls = 0

\* The drivers that are drawn.
DrawnDrivers == {DriverMarkers[i].driver : i \in 1..Len(DriverMarkers)}

\* C27: a presence entry stays in the merged output whatever its age: the
\* passing of time changes no entry, every entry with coordinates is drawn,
\* stale or not, and a presence snapshot keeps every record the query still
\* returns, so an entry goes only when a snapshot no longer has its record.
C27_StaleEntriesStay ==
    /\ [](\A i \in 1..Len(driverLocations) :
             HasCoordinates(driverLocations[i]) => driverLocations[i] \in DrawnDrivers)
    /\ [][ /\ (now' # now) =>
                 /\ driverLocations' = driverLocations
                 /\ DrawnDrivers' = DrawnDrivers
           /\ (driverLocations' # driverLocations) =>
                 \A coll \in PresenceCollections :
                     DriverSnapshot(coll) =>
                         /\ Tagged("Presence", driverLocations') =
                                Tagged("Presence", SelectSeq(coll, IsActiveDoc))
                         /\ \A i \in 1..Len(coll) :
                               coll[i].isActive =>
                                   \E j \in 1..Len(driverLocations') :
                                       driverLocations'[j] = coll[i] ]_vars

\* C27 witness: an entry whose age has passed 300 s is held and drawn, stale.
C27_Witness ==
    \E i \in 1..Len(DriverMarkers) :
        /\ DriverMarkers[i].driver.lastSeen # Null
        /\ AgeMs(DriverMarkers[i].driver) > 300 * 1000
        /\ IsStale(DriverMarkers[i])
        /\ DriverMarkers[i].driver \in PresenceEntries(driverLocations)

\* The entries of a list.
Entries(seq) == {seq[i] : i \in 1..Len(seq)}

\* C28: each stream's firing recomputes the merged output from the snapshot
\* that fired and the latest snapshot of the other stream: after a fleet
\* snapshot the fleet entries are the buses of that snapshot that have
\* coordinates (or the demo fleet) and nothing else, and the presence entries
\* are the ones last received; after a presence snapshot the presence entries
\* are the ones of that snapshot and the fleet entries are the ones last
\* received; nothing of a superseded snapshot is kept.  The markers and the
\* centre are computed from the two lists at every render.
C28_RecomputeFromLatestOfBoth ==
    [][ /\ (buses' # buses) =>
              LET held == Entries(buses') IN
              /\ driverLocations' = driverLocations
              /\ IF fleetListening'
                 THEN \E coll \in FleetCollections :
                         /\ \A i \in 1..Len(coll) : HasCoordinates(coll[i]) => coll[i] \in held
                         /\ held \subseteq Entries(coll) \cup Entries(DemoBuses(now))
                         /\ BusSnapshot(coll)
                 ELSE held = Entries(ErrorDemoBuses(now))
        /\ (driverLocations' # driverLocations) =>
              LET held == Entries(driverLocations') IN
              /\ buses' = buses
              /\ \E coll \in PresenceCollections :
                    /\ held = PresenceEntries(coll)
                    /\ DriverSnapshot(coll) ]_vars

\* C28 witness: both streams have fired, the fleet stream last with a
\* snapshot of one bus: the output holds that bus and two presence entries.
C28_Witness ==
    /\ Len(buses) = 1
    /\ buses[1].id = "bus-2"
    /\ Len(driverLocations) = 2
    /\ fleetListening

\* The list is in descending order of the seconds of the field, an entry
\* without a timestamp counting as 0 and so coming last.
Descending(seq, field) ==
    \A i \in 1..Len(seq), j \in 1..Len(seq) :
        i < j => SecondsOrZero(seq[i][field]) >= SecondsOrZero(seq[j][field])

\* C29: the merged output is in descending order of timestamp with the
\* entries without one last: the fleet entries by lastUpdated and the
\* presence entries by lastSeen.
C29_OutputOrdered ==
    /\ Descending(buses, "lastUpdated")
    /\ Descending(driverLocations, "lastSeen")

\* The entity selected, if one is.
SelectedEntity == IF selectedBus # Null THEN selectedBus ELSE selectedDriver

\* C30: every step that changes the Selection to a bus or a driver with
\* valid coordinates emits exactly one focus event, with the entity's
\* coordinate and the zoom hint 15; a step that selects an entity without
\* valid coordinates, or that clears the selection, emits none.
C30_FocusOnSelection ==
    [][ /\ (Selection' # Selection /\ Selection'.kind # "none") =>
              focus' = IF SelectedEntity'.latitude # 0 /\ SelectedEntity'.longitude # 0
                       THEN << [coordinate |-> <<SelectedEntity'.latitude,
                                                 SelectedEntity'.longitude>>,
                                zoom |-> 15] >>
                       ELSE <<>>
        /\ (Selection' # Selection /\ Selection'.kind = "none") => focus' = <<>> ]_vars

\* C30 witness: a driver was selected while a bus was, and the one focus
\* event of the step carries the driver's coordinate.
C30_Witness ==
    /\ Selection.kind = "driver"
    /\ Len(focus) = 1
    /\ focus[1].coordinate = <<selectedDriver.latitude, selectedDriver.longitude>>
    /\ focus[1].zoom = 15
    /\ Len(buses) = 1

\* C30 witness of the other case: a driver without coordinates was selected
\* and no focus event was emitted.
C30_WitnessNoCoordinates ==
    /\ Selection.kind = "driver"
    /\ selectionCurrent
    /\ ~HasCoordinates(selectedDriver)
    /\ focus = <<>>

\* The identities of the buses of a list.
Identities(seq) == {seq[i].id : i \in 1..Len(seq)}

\* C31: every path that substitutes demo data, the empty fleet snapshot and
\* the error of the fleet subscription, delivers the same set of demo bus
\* identities.
C31_OneDemoSet ==
    [][(BusSnapshot(<<>>) \/ BusSnapshotError) =>
          Identities(buses') = Identities(DemoBuses(now))]_vars

\* C32: no merge-update of the session is applied to the store after the
\* delete of its stop(): once a stop() has taken effect (the session is not
\* sharing and its record is gone), a merge-update that settles does not
\* re-create the record.
C32_NoUpdateAfterDelete ==
    [][\A t \in InFlight :
          ( /\ t.pc = "update_pending"
            /\ mounted
            /\ ~isSharing
            /\ ~store.exists
            /\ StoreWrite(t, TRUE) ) => ~store'.exists]_vars

\* A start() is in flight.
StartInFlight == \E t \in InFlight : t.kind = "start"

\* C33: whenever the session reports not sharing and no start() is in
\* flight, no watch registration is open.
C33_NoWatchWhenNotSharing ==
    (~isSharing /\ ~StartInFlight) => registered = {}

\* A stop() is in flight.
StopInFlight == \E t \in InFlight : t.kind = "stop"

\* C34: whenever the session reports sharing and no start() or stop() is in
\* flight, a watch registration is open; so also after a stop() whose delete
\* failed.
C34_WatchWhenSharing ==
    (mounted /\ isSharing /\ ~StartInFlight /\ ~StopInFlight) => registered # {}

\* C35: every record in the store has the fields of the full create (driver
\* id, displayName, busNumber, route, createdAt) beside its position: no
\* record consists of the fields of a merge-update only.
C35_RecordHasCreateFields == store.exists => store.profile

\* canStartSharing of the hook.
canStartSharing(isDriver, isVerified) == isDriver /\ isVerified /\ ~loading

\* C36: the loading flag is true for the whole of a start() that passed its
\* capability and authentication checks, until the call resolves, a nested
\* permission request included; so canStartSharing is false throughout.
C36_LoadingThroughoutStart ==
    (mounted /\ StartInFlight) => (loading /\ ~canStartSharing(TRUE, TRUE))

\* C37: a stop() whose delete fails returns failure with an error message
\* and changes neither what the session reports nor the store: a session
\* that was sharing with its record in the store still is, so the failed
\* stop does not make it report Idle over a record.
C37_FailedStopKeepsSharing ==
    [][\A t \in InFlight :
          ( /\ t.pc = "delete_pending"
            /\ mounted
            /\ tasks' # tasks
            /\ StoreWrite(t, FALSE) ) =>
              /\ ret' = Ret("stop", FALSE, t.cause)
              /\ error' = StoreErrMsg
              /\ error' # ""
              /\ isSharing' = isSharing
              /\ store' = store
              /\ (isSharing /\ store.exists) => (isSharing' /\ store'.exists) ]_vars

\* C37 witness: a stop() of a sharing session has returned failure: the
\* session still reports sharing, the record is there, the error is set.
C37_Witness ==
    /\ ret = Ret("stop", FALSE, "user")
    /\ isSharing
    /\ store.exists
    /\ error = StoreErrMsg
    /\ tasks = EmptyBag

\* C38: the demo fallback is used only for a fleet snapshot with no entries:
\* a snapshot with at least one entry gives no demo entry.
C38_DemoOnlyForEmptySnapshot ==
    [][(buses' # buses) =>
          \A coll \in FleetCollections :
              (Len(coll) > 0 /\ BusSnapshot(coll)) =>
                  Identities(buses') \cap Identities(DemoBuses(now)) = {}]_vars

Calls == {"start", "stop", "request"}

\* A call is in flight.
CallInFlight == \E t \in InFlight : t.kind \in Calls

\* The call that resolved in this step is a start() turned away at its
\* capability or authentication check, before it touched the loading flag.
RejectedAtGate == ret = Ret("start", FALSE, "user") /\ error \in {CapabilityMsg, AuthMsg}

\* C39 as stated: when the platform answers every position request and the
\* store every write, every start(), stop() and request() in flight
\* resolves, and every call of a mounted session resolves with the loading
\* flag false.
C39_CallsResolveNotLoading ==
    /\ []((mounted /\ ret.kind \in Calls) => ~loading)
    /\ \A k \in Calls : (\E t \in InFlight : t.kind = k) ~> (ret.kind = k)

\* C39: when the platform answers every position request and the store every
\* write, every start(), stop() and request() in flight resolves; a call of
\* a mounted session resolves with the loading flag false unless it is a
\* start() turned away at its capability or authentication check, which
\* leaves the flag as it is; and the flag is false whenever no call is in
\* flight, so it is never left set.
C39_CallsResolve ==
    /\ []((mounted /\ ret.kind \in Calls /\ ~RejectedAtGate) => ~loading)
    /\ []((mounted /\ ~CallInFlight) => ~loading)
    /\ \A k \in Calls : (\E t \in InFlight : t.kind = k) ~> (ret.kind = k)
    /\ <>[](~CallInFlight)

\* C39 witness: a start() that waited for the platform and the store has
\* resolved, and loading is false.
C39_Witness ==
    /\ mounted
    /\ ret = Ret("start", TRUE, "user")
    /\ ~loading
    /\ isSharing

\* C40: every presence record existing in the store satisfies the presence
\* subscription's filter isActive == true, so the query delivers it: both
\* the create and the merge-update write isActive = true.
C40_StoredRecordIsDelivered ==
    store.exists => PresenceQuery(<<store>>) = <<store>>

\* C40 witness: a record written by a merge-update alone (none of the
\* create's fields) is in the store, and the query delivers it.
C40_Witness ==
    /\ store.exists /\ ~store.profile
    /\ PresenceQuery(<<store>>) = <<store>>

====
